---- MODULE Spec2Model ----
(***************************************************************************)
(* BLOOMIN8 E-Ink Canvas integration: the shared runtime cache             *)
(* (runtime_data.device_info), the sensors' fetch-on-miss refresh, the     *)
(* option tables of the three select entities, the update_settings        *)
(* payloads built by the settings controls, the buttons and their command  *)
(* services, the renderings of the sensors, and the config flow.           *)
(***************************************************************************)
EXTENDS Integers, Sequences, FiniteSets, TLC

VARIABLES
    dev,            \* the device's real state (what /deviceInfo would report now)
    online,         \* whether the device answers HTTP requests
    omit,           \* keys this firmware leaves out of the /deviceInfo object
    device_info,    \* runtime_data.device_info: the shared cache
    lastGood,       \* the latest non-empty result of get_device_info()
    pending,        \* sensors the platform has scheduled in this refresh cycle
    spc,            \* per sensor: "idle", or "await" inside get_device_info()
    native,         \* per sensor: _attr_native_value
    attrs,          \* per sensor: _attr_extra_state_attributes
    ncalls,         \* per sensor: get_device_info() calls of its latest update
    cycle,          \* bookkeeping of the current refresh cycle
    current_option, \* per select: _attr_current_option
    text_value,     \* text entity: _attr_native_value
    inflight,       \* the update_settings calls that settings actions are
                    \* blocked on, in the order they were dispatched
    logged,         \* what the latest settings action logged with _LOGGER.error,
                    \* or the exception it raised
    cx,             \* single-control scenario: the control, the input the
                    \* device took last, whether it has been shown since,
                    \* the value async_update last read
    logs,           \* runtime_data.logs: the log history, oldest first
    press,          \* the button presses blocked on a service call, in the
                    \* order they were made, and the press that returned last
    flow,           \* the config flow: the steps suspended in validate_input,
                    \* the step that ended last, the config entries
    probe           \* single-entity scenario: the entity followed

\* the state of the buttons, the log history, the config flow and the
\* single-entity scenario
panelVars == <<logs, press, flow, probe>>

vars == <<dev, online, omit, device_info, lastGood, pending, spc, native, attrs,
          ncalls, cycle, current_option, text_value, inflight, logged, cx,
          logs, press, flow, probe>>

-----------------------------------------------------------------------------
(* Python values *)

\* Python None
PyNone == [none |-> TRUE]

\* a value that is not None (entity attributes are either)
Val(x) == [value |-> x]

\* bool(device_info): None and the empty dict are falsy
Truthy(d) == IF d = PyNone THEN FALSE ELSE DOMAIN d # {}

\* dict.get(key, default)
Get(d, k, default) == IF k \in DOMAIN d THEN d[k] ELSE default

\* dict.get(key): None when the key is missing
GetOrNone(d, k) == IF k \in DOMAIN d THEN Val(d[k]) ELSE PyNone

-----------------------------------------------------------------------------
(* Option tables, in the insertion order of the source dicts *)

SLEEP_DURATION_OPTIONS ==
    << <<"12 hours", 43200>>, <<"1 day", 86400>>, <<"2 days", 172800>>,
       <<"3 days", 259200>>, <<"5 days", 432000>>, <<"7 days", 604800>> >>

MAX_IDLE_OPTIONS ==
    << <<"10 seconds", 10>>, <<"30 seconds", 30>>, <<"1 minute", 60>>,
       <<"2 minutes", 120>>, <<"3 minutes", 180>>, <<"5 minutes", 300>>,
       <<"10 minutes", 600>>, <<"never sleep", -1>> >>

WAKE_SENSITIVITY_OPTIONS ==
    << <<"very low", 1>>, <<"low", 2>>, <<"medium", 3>>, <<"high", 4>>,
       <<"very high", 5>> >>

Axes == {"sleep", "idle", "wake"}

Options(axis) ==
    CASE axis = "sleep" -> SLEEP_DURATION_OPTIONS
      [] axis = "idle"  -> MAX_IDLE_OPTIONS
      [] axis = "wake"  -> WAKE_SENSITIVITY_OPTIONS

\* the device_info key each select reads and writes
FieldOf(axis) ==
    CASE axis = "sleep" -> "sleep_duration"
      [] axis = "idle"  -> "max_idle"
      [] axis = "wake"  -> "idx_wake_sens"

\* device_info.get(field, <this>) in async_update and in the payloads
DefaultValue(field) ==
    CASE field = "sleep_duration" -> 86400
      [] field = "max_idle"       -> 300
      [] field = "idx_wake_sens"  -> 3
      [] field = "name"           -> "E-Ink Canvas"

\* the option async_update falls back to
DefaultLabel(axis) ==
    CASE axis = "sleep" -> "1 day"
      [] axis = "idle"  -> "5 minutes"
      [] axis = "wake"  -> "medium"

Labels(axis) == {Options(axis)[i][1] : i \in 1..Len(Options(axis))}

TableValues(axis) == {Options(axis)[i][2] : i \in 1..Len(Options(axis))}

\* `option not in OPTIONS`
InTable(axis, option) == option \in Labels(axis)

\* what OPTIONS[option] raises for a key the dict does not hold
KeyError == [error |-> "KeyError"]

\* OPTIONS[option]
EncodeNextEntry(axis, option) ==
    LET t == Options(axis)
        hits == {j \in 1..Len(t) : t[j][1] = option}
    IN  IF hits = {} THEN KeyError
        ELSE t[((CHOOSE j \in hits : TRUE) % Len(t)) + 1][2]

Encode(axis, option) ==
    LET t == Options(axis)
        hits == {j \in 1..Len(t) : t[j][1] = option}
    IN  IF hits = {} THEN KeyError
        ELSE t[CHOOSE j \in hits : TRUE][2]

\* the loop of async_update: the first option whose value equals the reported
\* one, the default label when none does
DecodeMismatchAsFirst(axis, value) ==
    LET t == Options(axis)
        hits == {j \in 1..Len(t) : t[j][2] = value}
    IN  IF hits = {} THEN t[1][1]
        ELSE t[CHOOSE j \in hits : \A k \in hits : j <= k][1]

Decode(axis, value) ==
    LET t == Options(axis)
        hits == {j \in 1..Len(t) : t[j][2] = value}
    IN  IF hits = {} THEN DefaultLabel(axis)
        ELSE t[CHOOSE j \in hits : \A k \in hits : j <= k][1]

-----------------------------------------------------------------------------
(* The device and the API client *)

SettingsKeys == {"name", "sleep_duration", "max_idle", "idx_wake_sens"}

\* the /deviceInfo fields the model follows
Keys == SettingsKeys \cup {"battery", "version", "sta_ssid", "sta_ip", "image",
                           "total_size", "free_size", "fs_ready", "width",
                           "height", "screen_model"}

EmptyDict == [k \in {} |-> 0]

\* what the device starts with
InitialDevice ==
    [name |-> "Canvas", sleep_duration |-> 86400, max_idle |-> 300,
     idx_wake_sens |-> 3, battery |-> 80, version |-> "1.0.3",
     sta_ssid |-> "home", sta_ip |-> "10.0.0.7",
     image |-> <<"gallerys", "default", "a.jpg">>,
     total_size |-> 1073741824, free_size |-> 268435456, fs_ready |-> TRUE,
     width |-> 480, height |-> 800, screen_model |-> "EL073TF1"]

\* firmware variants: one reports every field, one leaves some out
OmitChoices == {{}, {"max_idle", "battery"}}

\* the JSON object of GET /deviceInfo
Snapshot(d, om) == [k \in Keys \ om |-> d[k]]

\* api_client.get_device_info(): the object, or None when the device does
\* not answer
GetDeviceInfo(d, on, om) == IF on THEN Snapshot(d, om) ELSE PyNone

\* the settings endpoint overwrites all four settings
ApplySettings(d, payload) ==
    [k \in Keys |-> IF k \in SettingsKeys THEN payload[k] ELSE d[k]]

-----------------------------------------------------------------------------
(* Sensors *)

\* the entities async_setup_entry adds, in the order of its list
SensorList ==
    <<"device_info", "battery", "storage", "current_image", "logs", "firmware",
      "wifi", "resolution">>

SensorEntities == {SensorList[i] : i \in 1..Len(SensorList)}

\* the sensors that render device_info (the log sensor reads the log history)
Sensors == SensorEntities \ {"logs"}

\* _get_device_info()
ReadCache(cache) == cache

\* `if not device_info: device_info = await self._fetch_device_info()`
NeedsFetchAlways(cached) == TRUE

NeedsFetchNever(cached) == FALSE

NeedsFetch(cached) == ~Truthy(cached)

\* _fetch_device_info: `if device_info: runtime_data.device_info = device_info`
StoreFetchedSentinel(cache, result) ==
    IF Truthy(result) THEN result ELSE EmptyDict

StoreFetchedMerged(cache, result) ==
    IF Truthy(result)
    THEN IF Truthy(cache)
         THEN [k \in DOMAIN cache \cup DOMAIN result |->
                 IF k \in DOMAIN cache /\ k # "battery" THEN cache[k] ELSE result[k]]
         ELSE result
    ELSE cache

StoreFetchedNever(cache, result) == cache

StoreFetched(cache, result) == IF Truthy(result) THEN result ELSE cache

Abs(n) == IF n < 0 THEN -n ELSE n

\* Python floats are IEEE-754 doubles. A double is held as its exact value
\* m * 2^e, the natural number m in limbs of 18 bits, the least significant
\* first, so that no step leaves TLC's 32-bit integers.
LimbBits == 18

\* 2^LimbBits
LimbBase == 262144

\* a natural number below 2^31 as limbs
Limbs(n) == <<n % LimbBase, n \div LimbBase>>

\* limb j of m, 0 beyond its length
LimbAt(m, j) == IF j <= Len(m) THEN m[j] ELSE 0

\* m with every limb brought below the base, the carry moving up
RECURSIVE Normalize(_, _)
Normalize(m, carry) ==
    IF m = <<>> THEN (IF carry = 0 THEN <<>> ELSE <<carry>>)
    ELSE LET v == Head(m) + carry
         IN  <<v % LimbBase>> \o Normalize(Tail(m), v \div LimbBase)

\* m * c, for a small c
MulSmall(m, c) == Normalize([j \in 1..Len(m) |-> m[j] * c], 0)

\* m + c, for a small c
AddSmall(m, c) == Normalize(m, c)

\* the value of m, when it is below 2^31
RECURSIVE LimbsValue(_)
LimbsValue(m) == IF m = <<>> THEN 0 ELSE Head(m) + LimbBase * LimbsValue(Tail(m))

RECURSIVE BitLenInt(_)
BitLenInt(n) == IF n = 0 THEN 0 ELSE 1 + BitLenInt(n \div 2)

\* the number of significant bits of m
BitLen(m) ==
    LET used == {j \in 1..Len(m) : m[j] # 0}
    IN  IF used = {} THEN 0
        ELSE LET top == CHOOSE j \in used : \A k \in used : k <= j
             IN  LimbBits * (top - 1) + BitLenInt(m[top])

\* bit i of m (bit 0 is the least significant)
BitAt(m, i) == (LimbAt(m, (i \div LimbBits) + 1) \div 2^(i % LimbBits)) % 2

\* whether the i lowest bits of m are all 0
LowBitsZero(m, i) ==
    /\ \A j \in 1..(i \div LimbBits) : LimbAt(m, j) = 0
    /\ LimbAt(m, (i \div LimbBits) + 1) % 2^(i % LimbBits) = 0

\* m \div 2^s
ShiftRight(m, s) ==
    LET d == s \div LimbBits
        k == s % LimbBits
    IN  [j \in 1..Len(m) |->
            (LimbAt(m, j + d) \div 2^k)
              + (LimbAt(m, j + d + 1) % 2^k) * 2^(LimbBits - k)]

\* m / 2^s rounded to the nearest integer, a tie to the even one; `sticky`
\* says that the number m stands for had further non-zero bits below m
RoundShift(m, s, sticky) ==
    IF s = 0 THEN m
    ELSE LET q == ShiftRight(m, s)
             half == BitAt(m, s - 1) = 1
             rest == sticky \/ ~LowBitsZero(m, s - 1)
             up == half /\ (rest \/ BitAt(q, 0) = 1)
         IN  IF up THEN AddSmall(q, 1) ELSE q

\* a positive double: the value m * 2^e with m of at most 53 significant bits
\* (or 2^53 itself)
RoundToDouble(m, e, sticky) ==
    LET s == BitLen(m) - 53
    IN  IF s <= 0 THEN [m |-> m, e |-> e]
        ELSE [m |-> RoundShift(m, s, sticky), e |-> e + s]

\* the next k bits of the quotient r / t and the remainder they leave
\* (0 <= r < t < 2^31; r is doubled without passing 2^31; after a remainder
\* of 0 every bit is 0)
RECURSIVE QuotientBits(_, _, _)
QuotientBits(r, t, k) ==
    IF k = 0 \/ r = 0 THEN [q |-> 0, r |-> r]
    ELSE LET bit == IF r >= t - r THEN 1 ELSE 0
             rest == QuotientBits(IF bit = 1 THEN r - (t - r) ELSE r + r, t, k - 1)
         IN  [q |-> bit * 2^(k - 1) + rest.q, r |-> rest.r]

\* the double u / t (0 < u, 0 < t, both below 2^31): the quotient to three
\* limbs below the binary point, or to five when three leave it short of 54
\* significant bits, rounded to 53 bits
DoubleDiv(u, t) ==
    LET c1 == QuotientBits(u % t, t, LimbBits)
        c2 == QuotientBits(c1.r, t, LimbBits)
        c3 == QuotientBits(c2.r, t, LimbBits)
        c4 == QuotientBits(c3.r, t, LimbBits)
        c5 == QuotientBits(c4.r, t, LimbBits)
        three == <<c3.q, c2.q, c1.q>> \o Limbs(u \div t)
    IN  IF BitLen(three) >= 54 \/ c3.r = 0
        THEN RoundToDouble(three, -3 * LimbBits, c3.r # 0)
        ELSE RoundToDouble(<<c5.q, c4.q>> \o three, -5 * LimbBits, c5.r # 0)

\* the double x * c for a small integer c
DoubleMulSmall(x, c) == RoundToDouble(MulSmall(x.m, c), x.e, FALSE)

\* round(x, k) in units of 10^-k, for a double 0 < x < 2^52 and scale = 10^k:
\* the integer nearest to the double's exact value times scale, a tie to the
\* even one
RoundDecimal(x, scale) == LimbsValue(RoundShift(MulSmall(x.m, scale), -x.e, FALSE))

\* repr() of the float m / 10 (m >= 0, one decimal) and of m / 100 (two
\* decimals, printed with as few digits as identify it, at least one)
FloatStr1(m) == ToString(m \div 10) \o "." \o ToString(m % 10)

FloatStr2(m) ==
    LET ip == m \div 100
        fr == m % 100
    IN  ToString(ip) \o "." \o
        (IF fr % 10 = 0 THEN ToString(fr \div 10)
         ELSE IF fr < 10 THEN "0" \o ToString(fr) ELSE ToString(fr))

KiB == 1024
MiB == 1048576
GiB == 1073741824

\* format_bytes: round(bytes_val / 1024**k, digits) printed with its unit
FormatBytesCoarse(bytes_val) ==
    IF bytes_val >= GiB
    THEN FloatStr1(RoundDecimal(DoubleDiv(bytes_val, GiB), 10)) \o " GB"
    ELSE IF bytes_val >= MiB
    THEN FloatStr1(RoundDecimal(DoubleDiv(bytes_val, MiB), 10)) \o " MB"
    ELSE IF bytes_val >= KiB
    THEN FloatStr1(RoundDecimal(DoubleDiv(bytes_val, KiB), 10)) \o " KB"
    ELSE ToString(bytes_val) \o " B"

FormatBytes(bytes_val) ==
    IF bytes_val >= GiB
    THEN FloatStr2(RoundDecimal(DoubleDiv(bytes_val, GiB), 100)) \o " GB"
    ELSE IF bytes_val >= MiB
    THEN FloatStr1(RoundDecimal(DoubleDiv(bytes_val, MiB), 10)) \o " MB"
    ELSE IF bytes_val >= KiB
    THEN FloatStr1(RoundDecimal(DoubleDiv(bytes_val, KiB), 10)) \o " KB"
    ELSE ToString(bytes_val) \o " B"

\* round((used_size / total_size) * 100, 1) for total_size > 0: the float
\* with `tenths` tenths, negative (or -0.0) when `neg`
UsagePercent(used_size, total_size) ==
    [neg |-> used_size < 0,
     tenths |-> IF used_size = 0 THEN 0
                ELSE RoundDecimal(
                        DoubleMulSmall(DoubleDiv(Abs(used_size), total_size), 100),
                        10)]

\* f"{usage_percent}"
PercentStr(usage_percent) ==
    (IF usage_percent.neg THEN "-" ELSE "") \o FloatStr1(usage_percent.tenths)

\* usage_percent < limit, for a whole number limit > 0
PercentBelow(usage_percent, limit) ==
    usage_percent.neg \/ usage_percent.tenths < 10 * limit

\* "healthy" if usage_percent < 90 else "warning" if usage_percent < 95 else
\* "critical"
StorageStatusInclusive(usage_percent) ==
    IF PercentBelow(usage_percent, 90) \/ usage_percent.tenths = 900 THEN "healthy"
    ELSE IF PercentBelow(usage_percent, 95) \/ usage_percent.tenths = 950
    THEN "warning" ELSE "critical"

StorageStatus(usage_percent) ==
    IF PercentBelow(usage_percent, 90) THEN "healthy"
    ELSE IF PercentBelow(usage_percent, 95) THEN "warning" ELSE "critical"

\* the if/elif chain of EinkScreenResolutionSensor
CanvasModelByWidth(width, height) ==
    IF width = 480 THEN "7.3\" Canvas"
    ELSE IF width = 1200 THEN "13.3\" Canvas"
    ELSE IF width = 2160 THEN "28.5\" Canvas"
    ELSE "Unknown"

CanvasModel(width, height) ==
    IF width = 480 /\ height = 800 THEN "7.3\" Canvas"
    ELSE IF width = 1200 /\ height = 1600 THEN "13.3\" Canvas"
    ELSE IF width = 2160 /\ height = 3060 THEN "28.5\" Canvas"
    ELSE "Unknown"

\* a path string is held as the segments its "/" separate: "a/b.jpg" is
\* <<"a", "b.jpg">>, "" is <<>>; this is the string itself
RECURSIVE PathString(_)
PathString(path) ==
    IF path = <<>> THEN ""
    ELSE IF Len(path) = 1 THEN path[1]
    ELSE path[1] \o "/" \o PathString(Tail(path))

\* image_path.split("/")[-1] if "/" in image_path else image_path
ImageName(image_path) ==
    IF Len(image_path) > 1 THEN image_path[Len(image_path)]
    ELSE PathString(image_path)

\* `device_info.get("image")` as a condition: a missing or empty path is
\* falsy
HasImage(di) == PathString(Get(di, "image", <<>>)) # ""

\* config_entry.data[CONF_HOST], which every sensor keeps as self._host
DeviceHost == "10.0.0.7"

\* _attr_native_value after async_update rendered a snapshot
NativeOnline(s, di) ==
    CASE s = "device_info" -> Val("Online")
      [] s = "battery" -> Val(Get(di, "battery", 0))
      [] s = "storage" ->
            LET total_size == Get(di, "total_size", 0)
                free_size == Get(di, "free_size", 0)
                used_size == total_size - free_size
            IN  IF total_size > 0
                THEN Val(PercentStr(UsagePercent(used_size, total_size)) \o "% ("
                         \o FormatBytes(used_size) \o " / "
                         \o FormatBytes(total_size) \o ")")
                ELSE Val("Unknown")
      [] s = "current_image" ->
            IF HasImage(di) THEN Val(ImageName(di["image"])) ELSE Val("None")
      [] s = "firmware" -> Val(Get(di, "version", "Unknown"))
      [] s = "wifi" -> Val(Get(di, "sta_ssid", "Unknown"))
      [] s = "resolution" ->
            Val(ToString(Get(di, "width", 0)) \o "x" \o ToString(Get(di, "height", 0)))

\* _attr_native_value after async_update found no device info
NativeOffline(s) ==
    CASE s = "device_info" -> Val("Offline")
      [] s = "battery" -> PyNone
      [] s = "storage" -> Val("Offline")
      [] s = "current_image" -> Val("None")
      [] s = "firmware" -> Val("Offline")
      [] s = "wifi" -> Val("Offline")
      [] s = "resolution" -> Val("Unknown")

NativeOf(s, di) == IF Truthy(di) THEN NativeOnline(s, di) ELSE NativeOffline(s)

\* _attr_extra_state_attributes after async_update rendered a snapshot
\* (the battery and firmware sensors assign none)
AttrsOnline(s, di, old) ==
    CASE s = "device_info" ->
            [device_name      |-> GetOrNone(di, "name"),
             firmware_version |-> GetOrNone(di, "version"),
             board_model      |-> GetOrNone(di, "board_model"),
             screen_model     |-> GetOrNone(di, "screen_model"),
             network_type     |-> GetOrNone(di, "network_type"),
             wifi_ssid        |-> GetOrNone(di, "sta_ssid"),
             ip_address       |-> GetOrNone(di, "sta_ip"),
             resolution       |-> ToString(Get(di, "width", 0)) \o "x"
                                    \o ToString(Get(di, "height", 0)),
             screen_width     |-> Get(di, "width", 0),
             screen_height    |-> Get(di, "height", 0),
             sleep_duration   |-> GetOrNone(di, "sleep_duration"),
             max_idle         |-> GetOrNone(di, "max_idle"),
             gallery          |-> GetOrNone(di, "gallery"),
             playlist         |-> GetOrNone(di, "playlist"),
             play_type        |-> GetOrNone(di, "play_type")]
      [] s = "battery" -> old
      [] s = "storage" ->
            LET total_size == Get(di, "total_size", 0)
                free_size == Get(di, "free_size", 0)
                used_size == total_size - free_size
                usage_percent == UsagePercent(used_size, total_size)
            IN  IF total_size > 0
                THEN [usage_percentage |-> PercentStr(usage_percent),
                      used_size_bytes  |-> used_size,
                      total_size_bytes |-> total_size,
                      free_size_bytes  |-> free_size,
                      used_formatted   |-> FormatBytes(used_size),
                      total_formatted  |-> FormatBytes(total_size),
                      free_formatted   |-> FormatBytes(free_size),
                      fs_ready         |-> Get(di, "fs_ready", FALSE),
                      storage_status   |-> StorageStatus(usage_percent)]
                ELSE EmptyDict
      [] s = "current_image" ->
            IF HasImage(di)
            THEN [full_path |-> PathString(di["image"]),
                  image_url |-> "http://" \o DeviceHost \o PathString(di["image"]),
                  next_time |-> GetOrNone(di, "next_time")]
            ELSE EmptyDict
      [] s = "firmware" -> old
      [] s = "wifi" ->
            [ip_address   |-> GetOrNone(di, "sta_ip"),
             network_type |-> GetOrNone(di, "network_type")]
      [] s = "resolution" ->
            LET width == Get(di, "width", 0)
                height == Get(di, "height", 0)
            IN  [width        |-> width,
                 height       |-> height,
                 canvas_model |-> CanvasModel(width, height),
                 screen_model |-> Get(di, "screen_model", "Unknown"),
                 aspect_ratio |-> ToString(width) \o ":" \o ToString(height)]

\* _attr_extra_state_attributes after async_update found no device info
AttrsOfflineKept(s, old) == old

AttrsOffline(s, old) ==
    CASE s \in {"battery", "firmware"} -> old
      [] OTHER -> EmptyDict

AttrsOf(s, di, old) ==
    IF Truthy(di) THEN AttrsOnline(s, di, old) ELSE AttrsOffline(s, old)

\* bookkeeping of one refresh cycle: whether one has begun, whether the cache
\* was empty, or behind the device, when it began, the get_device_info()
\* calls the sensors made in it, whether every answer was a snapshot, and
\* whether two sensors were inside get_device_info() at once
NewCycle(run, cache, fresh) ==
    [run |-> run, startEmpty |-> ~Truthy(cache),
     stale |-> Truthy(cache) /\ cache # fresh,
     calls |-> 0, ok |-> TRUE, overlap |-> FALSE]

\* the platform's periodic refresh: every sensor is scheduled for async_update
StartCycle ==
    /\ pending = {}
    /\ \A s \in Sensors : spc[s] = "idle"
    /\ pending' = Sensors
    /\ cycle' = NewCycle(TRUE, device_info, Snapshot(dev, omit))
    /\ UNCHANGED panelVars
    /\ UNCHANGED <<dev, online, omit, device_info, lastGood, spc, native, attrs,
                   ncalls, current_option, text_value, inflight, logged, cx>>

\* async_update up to its first suspension: the whole update when the cache
\* is populated, up to `await api_client.get_device_info()` when it is not
SensorBegin(s) ==
    /\ s \in pending
    /\ spc[s] = "idle"
    /\ pending' = pending \ {s}
    /\ LET di == ReadCache(device_info) IN
         IF NeedsFetch(di)
         THEN /\ spc' = [spc EXCEPT ![s] = "await"]
              /\ ncalls' = [ncalls EXCEPT ![s] = 1]
              /\ cycle' = [cycle EXCEPT
                             !.calls = @ + 1,
                             !.overlap = @ \/ (\E t \in Sensors : spc[t] = "await")]
              /\ UNCHANGED <<native, attrs>>
         ELSE /\ native' = [native EXCEPT ![s] = NativeOf(s, di)]
              /\ attrs' = [attrs EXCEPT ![s] = AttrsOf(s, di, attrs[s])]
              /\ ncalls' = [ncalls EXCEPT ![s] = 0]
              /\ UNCHANGED <<spc, cycle>>
    /\ UNCHANGED panelVars
    /\ UNCHANGED <<dev, online, omit, device_info, lastGood, current_option,
                   text_value, inflight, logged, cx>>

\* get_device_info() answers: _fetch_device_info stores a non-empty answer,
\* and the rest of async_update renders what it returned
SensorResume(s) ==
    /\ spc[s] = "await"
    /\ LET result == GetDeviceInfo(dev, online, omit) IN
         /\ device_info' = StoreFetched(device_info, result)
         /\ lastGood' = IF Truthy(result) THEN result ELSE lastGood
         /\ native' = [native EXCEPT ![s] = NativeOf(s, result)]
         /\ attrs' = [attrs EXCEPT ![s] = AttrsOf(s, result, attrs[s])]
         /\ cycle' = [cycle EXCEPT !.ok = @ /\ Truthy(result)]
    /\ spc' = [spc EXCEPT ![s] = "idle"]
    /\ UNCHANGED panelVars
    /\ UNCHANGED <<dev, online, omit, pending, ncalls, current_option, text_value,
                   inflight, logged, cx>>

\* the platform's periodic refresh of one entity: sensor s is scheduled for
\* async_update (the platform starts no update of an entity whose previous
\* update has not returned), and the bookkeeping starts afresh
SchedulePoll(s) ==
    /\ s \notin pending
    /\ spc[s] = "idle"
    /\ pending' = pending \cup {s}
    /\ cycle' = NewCycle(TRUE, device_info, Snapshot(dev, omit))
    /\ UNCHANGED panelVars
    /\ UNCHANGED <<dev, online, omit, device_info, lastGood, spc, native, attrs,
                   ncalls, current_option, text_value, inflight, logged, cx>>

\* logs[-10:]
RecentCount == 10

RecentLogs(history) ==
    IF Len(history) > RecentCount
    THEN SubSeq(history, Len(history) - RecentCount + 1, Len(history))
    ELSE history

\* log['level'].upper()
Upper(level) ==
    CASE level = "info"    -> "INFO"
      [] level = "warning" -> "WARNING"
      [] level = "error"   -> "ERROR"

\* the decimal digits of n, zero-padded on the left to `width` characters
RECURSIVE Pad(_, _)
Pad(n, width) ==
    IF width <= 1 THEN ToString(n)
    ELSE IF n < 10 THEN "0" \o Pad(n, width - 1)
    ELSE Pad(n \div 10, width - 1) \o ToString(n % 10)

\* datetime.strftime("%H:%M:%S")
StrfTime(t) == Pad(t.hour, 2) \o ":" \o Pad(t.minute, 2) \o ":" \o Pad(t.second, 2)

\* datetime.isoformat() of a naive datetime: the fraction is written only
\* when microsecond is not 0
IsoFormat(t) ==
    Pad(t.year, 4) \o "-" \o Pad(t.month, 2) \o "-" \o Pad(t.day, 2) \o "T"
        \o StrfTime(t)
        \o (IF t.microsecond = 0 THEN "" ELSE "." \o Pad(t.microsecond, 6))

\* one line of the log history
LogLine(log) ==
    "[" \o StrfTime(log.timestamp) \o "] " \o Upper(log.level) \o ": " \o log.message

\* EinkLogSensor.async_update: reads runtime_data.logs only
EinkLogSensor_async_update ==
    /\ native' = [native EXCEPT !["logs"] =
                    IF logs # <<>> THEN Val(logs[Len(logs)].message)
                    ELSE Val("No logs")]
    /\ attrs' = [attrs EXCEPT !["logs"] =
                    IF logs # <<>>
                    THEN [latest_level     |-> logs[Len(logs)].level,
                          latest_timestamp |-> IsoFormat(logs[Len(logs)].timestamp),
                          total_logs       |-> Len(logs),
                          recent_logs      |->
                              [i \in 1..Len(RecentLogs(logs)) |->
                                  LogLine(RecentLogs(logs)[i])]]
                    ELSE EmptyDict]
    /\ UNCHANGED <<dev, online, omit, device_info, lastGood, pending, spc, ncalls,
                   cycle, current_option, text_value, inflight, logged, cx, logs,
                   press, flow, probe>>

EinkDeviceInfoSensor_async_update ==
    SensorBegin("device_info") \/ SensorResume("device_info")

EinkBatterySensor_async_update ==
    SensorBegin("battery") \/ SensorResume("battery")

EinkStorageSensor_async_update ==
    SensorBegin("storage") \/ SensorResume("storage")

EinkCurrentImageSensor_async_update ==
    SensorBegin("current_image") \/ SensorResume("current_image")

EinkFirmwareVersionSensor_async_update ==
    SensorBegin("firmware") \/ SensorResume("firmware")

EinkWifiSSIDSensor_async_update ==
    SensorBegin("wifi") \/ SensorResume("wifi")

EinkScreenResolutionSensor_async_update ==
    SensorBegin("resolution") \/ SensorResume("resolution")

-----------------------------------------------------------------------------
(* The device's own life *)

\* the device drops off the network, or comes back
DeviceToggle ==
    /\ online' = ~online
    /\ UNCHANGED panelVars
    /\ UNCHANGED <<dev, omit, device_info, lastGood, pending, spc, native, attrs,
                   ncalls, cycle, current_option, text_value, inflight, logged, cx>>

\* how far the battery level falls
MaxDrain == 1

\* the battery drains: the device's state moves on while the cache keeps the
\* snapshot it holds
DeviceDrain ==
    /\ dev.battery > InitialDevice.battery - MaxDrain
    /\ dev' = [dev EXCEPT !.battery = @ - 1]
    /\ UNCHANGED panelVars
    /\ UNCHANGED <<online, omit, device_info, lastGood, pending, spc, native, attrs,
                   ncalls, cycle, current_option, text_value, inflight, logged, cx>>

-----------------------------------------------------------------------------
(* Settings controls: the three selects and the device-name text *)

Controls == Axes \cup {"name"}

\* the payload key a control sets from the user's input
ChangedField(c) == IF c = "name" THEN "name" ELSE FieldOf(c)

\* the new value of the changed field
NewValue(c, arg) == IF c = "name" THEN arg ELSE Encode(c, arg)

\* the service data of update_settings: the changed field from the input, the
\* other three from the snapshot (with the .get defaults)
BuildPayloadDefaults(c, di, arg) ==
    [k \in SettingsKeys |->
        IF k = ChangedField(c) THEN NewValue(c, arg) ELSE DefaultValue(k)]

BuildPayload(c, di, arg) ==
    [k \in SettingsKeys |->
        IF k = ChangedField(c) THEN NewValue(c, arg)
        ELSE Get(di, k, DefaultValue(k))]

\* _LOGGER.error(...) followed by `return`: nothing is raised to the caller
LogError(c, msg) == [ctl |-> c, msg |-> msg, raised |-> FALSE]

\* `if not device_info:` on the write path
CacheMissingNever(di) == FALSE

CacheMissing(di) == ~Truthy(di)

\* `if option not in OPTIONS:`
InvalidOptionNever(axis, option) == FALSE

InvalidOption(axis, option) == ~InTable(axis, option)

\* the single-control scenario: a selection is under way, and the input whose
\* payload the device took last
NoteSent(c) ==
    IF cx.axis = c THEN [cx EXCEPT !.shown = FALSE] ELSE cx

NoteWritten(call) ==
    IF cx.axis = call.ctl THEN [cx EXCEPT !.want = Val(call.arg)] ELSE cx

\* how many update_settings calls are followed at once
MaxInFlight == 2

\* seq without its i-th element
Remove(seq, i) == SubSeq(seq, 1, i - 1) \o SubSeq(seq, i + 1, Len(seq))

\* whether OPTIONS[option] raises KeyError while the payload is built
RaisesKeyError(c, arg) == c \in Axes /\ ~InTable(c, arg)

\* hass.services.async_call(DOMAIN, "update_settings", payload, blocking=True):
\* the action stays suspended until the service returns, whatever other calls
\* are in flight. A KeyError raised while the payload is built leaves the
\* action before anything is called.
Dispatch(c, arg, di) ==
    IF RaisesKeyError(c, arg)
    THEN /\ logged' = [ctl |-> c, msg |-> "KeyError", raised |-> TRUE]
         /\ UNCHANGED <<inflight, cx>>
    ELSE /\ Len(inflight) < MaxInFlight
         /\ inflight' = Append(inflight,
                               [ctl |-> c, arg |-> arg, snap |-> di,
                                payload |-> BuildPayload(c, di, arg),
                                stage |-> "write"])
         /\ cx' = NoteSent(c)
         /\ logged' = PyNone

\* async_select_option of the three select classes
SelectOption(axis, option) ==
    /\ IF InvalidOption(axis, option)
       THEN /\ logged' = LogError(axis, "invalid option")
            /\ UNCHANGED <<inflight, cx>>
       ELSE LET di == ReadCache(device_info) IN
            IF CacheMissing(di)
            THEN /\ logged' = LogError(axis, "device info not available")
                 /\ UNCHANGED <<inflight, cx>>
            ELSE Dispatch(axis, option, di)
    /\ UNCHANGED panelVars
    /\ UNCHANGED <<dev, online, omit, device_info, lastGood, pending, spc, native,
                   attrs, ncalls, cycle, current_option, text_value>>

\* EinkDeviceNameText.async_set_value
SetValue(value) ==
    /\ LET di == ReadCache(device_info) IN
         IF CacheMissing(di)
         THEN /\ logged' = LogError("name", "device info not available")
              /\ UNCHANGED <<inflight, cx>>
         ELSE Dispatch("name", value, di)
    /\ UNCHANGED panelVars
    /\ UNCHANGED <<dev, online, omit, device_info, lastGood, pending, spc, native,
                   attrs, ncalls, cycle, current_option, text_value>>

\* the update_settings service writes the payload of one of the calls to the
\* device; a device that does not answer fails the call, which then returns
ServiceWrite ==
    /\ \E i \in 1..Len(inflight) :
         /\ inflight[i].stage = "write"
         /\ IF online
            THEN /\ dev' = ApplySettings(dev, inflight[i].payload)
                 /\ inflight' = [inflight EXCEPT ![i].stage = "refresh"]
                 /\ cx' = NoteWritten(inflight[i])
            ELSE /\ inflight' = Remove(inflight, i)
                 /\ UNCHANGED <<dev, cx>>
    /\ UNCHANGED panelVars
    /\ UNCHANGED <<online, omit, device_info, lastGood, pending, spc, native, attrs,
                   ncalls, cycle, current_option, text_value, logged>>

\* after a successful write the service refreshes the cache from the device
\* (a whole-snapshot Set), and the blocked action resumes
ServiceRefresh ==
    /\ \E i \in 1..Len(inflight) :
         /\ inflight[i].stage = "refresh"
         /\ inflight' = Remove(inflight, i)
    /\ LET result == GetDeviceInfo(dev, online, omit) IN
         /\ device_info' = StoreFetched(device_info, result)
         /\ lastGood' = IF Truthy(result) THEN result ELSE lastGood
    /\ UNCHANGED panelVars
    /\ UNCHANGED <<dev, online, omit, pending, spc, native, attrs, ncalls, cycle,
                   current_option, text_value, logged, cx>>

\* async_update of the three select classes
SelectAsyncUpdateFetching(axis) ==
    /\ LET cached == ReadCache(device_info)
           result == GetDeviceInfo(dev, online, omit)
           di == IF Truthy(cached) THEN cached ELSE result
       IN  /\ device_info' = IF Truthy(cached) THEN device_info ELSE result
           /\ lastGood' = IF ~Truthy(cached) /\ Truthy(result) THEN result
                          ELSE lastGood
           /\ current_option' = [current_option EXCEPT ![axis] =
                 IF Truthy(di)
                 THEN Val(Decode(axis, Get(di, FieldOf(axis), DefaultValue(FieldOf(axis)))))
                 ELSE Val(DefaultLabel(axis))]
    /\ UNCHANGED panelVars
    /\ UNCHANGED <<dev, online, omit, pending, spc, native, attrs, ncalls, cycle,
                   text_value, inflight, logged, cx>>

SelectAsyncUpdate(axis) ==
    /\ LET di == ReadCache(device_info)
           current_value == Get(di, FieldOf(axis), DefaultValue(FieldOf(axis)))
       IN  /\ current_option' = [current_option EXCEPT ![axis] =
                 IF Truthy(di) THEN Val(Decode(axis, current_value))
                 ELSE Val(DefaultLabel(axis))]
           /\ cx' = IF cx.axis = axis
                    THEN [cx EXCEPT
                            !.shown = (cx.want # PyNone /\ inflight = <<>>),
                            !.seen = IF Truthy(di) THEN Val(current_value) ELSE PyNone]
                    ELSE cx
    /\ UNCHANGED panelVars
    /\ UNCHANGED <<dev, online, omit, device_info, lastGood, pending, spc, native,
                   attrs, ncalls, cycle, text_value, inflight, logged>>

\* EinkDeviceNameText.async_update
TextAsyncUpdate ==
    /\ LET di == ReadCache(device_info) IN
         /\ text_value' = IF Truthy(di)
                          THEN Val(Get(di, "name", DefaultValue("name")))
                          ELSE Val(DefaultValue("name"))
         /\ cx' = IF cx.axis = "name"
                  THEN [cx EXCEPT !.shown = (cx.want # PyNone /\ inflight = <<>>)]
                  ELSE cx
    /\ UNCHANGED panelVars
    /\ UNCHANGED <<dev, online, omit, device_info, lastGood, pending, spc, native,
                   attrs, ncalls, cycle, current_option, inflight, logged>>

-----------------------------------------------------------------------------
(* Buttons and the command services *)

Buttons == {"next_image", "reboot", "clear_screen", "whistle", "refresh"}

\* the service each button's async_press calls
CommandOfShared(b) == "show_next"

CommandOf(b) ==
    CASE b = "next_image"   -> "show_next"
      [] b = "reboot"       -> "reboot"
      [] b = "clear_screen" -> "clear_screen"
      [] b = "whistle"      -> "whistle"
      [] b = "refresh"      -> "refresh_device_info"

\* hass.services.async_call(DOMAIN, service, {}, blocking=True)
ServiceCall(service) == [service |-> service, data |-> EmptyDict, blocking |-> TRUE]

\* the service calls one async_press makes, in order
PressCallsRetry(b) == <<ServiceCall(CommandOf(b)), ServiceCall(CommandOf(b))>>

PressCalls(b) == <<ServiceCall(CommandOf(b))>>

\* how many presses are followed while they are blocked on their calls
MaxPresses == 2

\* no press is blocked on a call, and none has returned
NoPress == [active |-> <<>>, returned |-> PyNone]

\* async_press up to the await: the call is dispatched and the press blocks
\* until the service returns, whatever other presses (of this button or of
\* another) are blocked
AsyncPress(b) ==
    /\ Len(press.active) < MaxPresses
    /\ press' = [press EXCEPT !.active =
                    Append(@, [button |-> b, sent |-> <<Head(PressCalls(b))>>,
                               todo |-> Tail(PressCalls(b))])]
    /\ UNCHANGED <<dev, online, omit, device_info, lastGood, pending, spc, native,
                   attrs, ncalls, cycle, current_option, text_value, inflight,
                   logged, cx, logs, flow, probe>>

\* how many entries the log history keeps
MaxLogs == 2

\* the instants at which log entries are made
Instants ==
    { [year |-> 2026, month |-> 3, day |-> 1,
       hour |-> 9, minute |-> 5, second |-> 3, microsecond |-> 0],
      [year |-> 2026, month |-> 11, day |-> 23,
       hour |-> 17, minute |-> 40, second |-> 12, microsecond |-> 4500] }

\* LogEntry
LogEntry(t, level, message) == [timestamp |-> t, level |-> level, message |-> message]

\* AppendLog: insertion order kept, the oldest entry aged out
AppendLog(history, entry) ==
    IF Len(history) < MaxLogs THEN Append(history, entry)
    ELSE Append(Tail(history), entry)

\* the command service of the i-th blocked press resolves: SendCommand
\* succeeds on a device that answers; a failure is logged; refresh_device_info
\* stores the snapshot it fetched; either way the call returns and async_press
\* goes on to its end (a press that had further calls to make makes the next)
CommandService(i) ==
    /\ i \in 1..Len(press.active)
    /\ LET p == press.active[i]
           call == p.sent[Len(p.sent)]
           failure == ~online
           result == GetDeviceInfo(dev, online, omit)
           refreshed == call.service = "refresh_device_info" /\ ~failure
       IN  /\ IF failure
              THEN \E t \in Instants :
                      logs' = AppendLog(logs, LogEntry(t, "error", call.service))
              ELSE logs' = logs
           /\ device_info' = IF refreshed THEN StoreFetched(device_info, result)
                             ELSE device_info
           /\ lastGood' = IF refreshed /\ Truthy(result) THEN result ELSE lastGood
           /\ press' =
                 IF p.todo = <<>>
                 THEN [active |-> Remove(press.active, i),
                       returned |-> [button |-> p.button, sent |-> p.sent,
                                     failed |-> failure]]
                 ELSE [press EXCEPT !.active[i] =
                          [p EXCEPT !.sent = Append(@, Head(p.todo)),
                                    !.todo = Tail(@)]]
    /\ UNCHANGED <<dev, online, omit, pending, spc, native, attrs, ncalls, cycle,
                   current_option, text_value, inflight, logged, cx, flow, probe>>

EinkNextImageButton_async_press == AsyncPress("next_image")

EinkRebootButton_async_press == AsyncPress("reboot")

EinkClearScreenButton_async_press == AsyncPress("clear_screen")

EinkWhistleButton_async_press == AsyncPress("whistle")

EinkRefreshButton_async_press == AsyncPress("refresh")

SendCommand == \E i \in 1..Len(press.active) : CommandService(i)

-----------------------------------------------------------------------------
(* What the user enters *)

NotALabel == "bogus"

TriedOptions(axis) ==
    CASE axis = "sleep" -> {"12 hours", NotALabel}
      [] axis = "idle"  -> {"never sleep"}
      [] axis = "wake"  -> {"high"}

TriedNames == {"Hall"}

EinkSleepDurationSelect_async_select_option ==
    \E o \in TriedOptions("sleep") : SelectOption("sleep", o)

EinkMaxIdleSelect_async_select_option ==
    \E o \in TriedOptions("idle") : SelectOption("idle", o)

EinkWakeSensitivitySelect_async_select_option ==
    \E o \in TriedOptions("wake") : SelectOption("wake", o)

EinkDeviceNameText_async_set_value == \E v \in TriedNames : SetValue(v)

update_settings == ServiceWrite \/ ServiceRefresh

-----------------------------------------------------------------------------
(* The integration as it runs *)

NoScenario == [axis |-> "none", want |-> PyNone, shown |-> FALSE, seen |-> PyNone]

\* no step of the config flow has ended
NoStep ==
    [step |-> "none", input |-> PyNone, target |-> 0, outcome |-> "none",
     result |-> PyNone, logged |-> FALSE, escaped |-> FALSE]

\* no config flow has run, and there is no config entry
NoFlow == [await |-> <<>>, last |-> NoStep, entries |-> <<>>]

\* no single-entity scenario
NoProbe == [entity |-> "none"]

Init ==
    /\ dev = InitialDevice
    /\ online \in BOOLEAN
    /\ omit = {}
    /\ device_info = PyNone
    /\ lastGood = PyNone
    /\ pending = {}
    /\ spc = [s \in Sensors |-> "idle"]
    /\ native = [s \in SensorEntities |-> PyNone]
    /\ attrs = [s \in SensorEntities |-> PyNone]
    /\ ncalls = [s \in Sensors |-> 0]
    /\ cycle = NewCycle(FALSE, PyNone, PyNone)
    /\ current_option = [a \in Axes |-> PyNone]
    /\ text_value = PyNone
    /\ inflight = <<>>
    /\ logged = PyNone
    /\ cx = NoScenario
    /\ logs = <<>>
    /\ press = NoPress
    /\ flow = NoFlow
    /\ probe = NoProbe

\* the sensors' updates run as interleaved tasks, on a device that drops off
\* the network and comes back
Next ==
    \/ StartCycle
    \/ EinkDeviceInfoSensor_async_update
    \/ EinkBatterySensor_async_update
    \/ EinkStorageSensor_async_update
    \/ EinkCurrentImageSensor_async_update
    \/ EinkFirmwareVersionSensor_async_update
    \/ EinkWifiSSIDSensor_async_update
    \/ EinkScreenResolutionSensor_async_update
    \/ DeviceToggle

Spec == Init /\ [][Next]_vars

-----------------------------------------------------------------------------
(* The user at the settings controls, after the first refresh cycle: the    *)
(* cache is populated, or absent when the device did not answer; actions    *)
(* may be taken while earlier ones are still in flight; the device may      *)
(* leave fields out of /deviceInfo.                                         *)

SettingsInit ==
    /\ dev = InitialDevice
    /\ online \in BOOLEAN
    /\ omit \in OmitChoices
    /\ device_info \in {PyNone, Snapshot(dev, omit)}
    /\ lastGood = device_info
    /\ pending = {}
    /\ spc = [s \in Sensors |-> "idle"]
    /\ native = [s \in SensorEntities |-> PyNone]
    /\ attrs = [s \in SensorEntities |-> PyNone]
    /\ ncalls = [s \in Sensors |-> 0]
    /\ cycle = NewCycle(FALSE, PyNone, PyNone)
    /\ current_option = [a \in Axes |-> PyNone]
    /\ text_value = PyNone
    /\ inflight = <<>>
    /\ logged = PyNone
    /\ cx = NoScenario
    /\ logs = <<>>
    /\ press = NoPress
    /\ flow = NoFlow
    /\ probe = NoProbe

SettingsNext ==
    \/ EinkSleepDurationSelect_async_select_option
    \/ EinkMaxIdleSelect_async_select_option
    \/ EinkWakeSensitivitySelect_async_select_option
    \/ EinkDeviceNameText_async_set_value
    \/ update_settings
    \/ DeviceToggle

SettingsSpec == SettingsInit /\ [][SettingsNext]_vars

-----------------------------------------------------------------------------
(* The platform refreshing the sensors one after another, in the order of   *)
(* async_setup_entry's list, on a device whose state moves on.              *)

\* where async_setup_entry's list holds sensor s
Position(s) == CHOOSE i \in 1..Len(SensorList) : SensorList[i] = s

\* s is the next scheduled sensor of the list, and no update is under way
InTurn(s) ==
    /\ s \in pending
    /\ \A t \in pending : Position(s) <= Position(t)
    /\ \A t \in Sensors : spc[t] = "idle"

SensorInTurn == \E s \in Sensors : InTurn(s) /\ SensorBegin(s)

SensorAnswered == \E s \in Sensors : SensorResume(s)

RefreshNext ==
    \/ StartCycle
    \/ SensorInTurn
    \/ SensorAnswered
    \/ DeviceDrain
    \/ DeviceToggle

RefreshSpec == Init /\ [][RefreshNext]_vars

-----------------------------------------------------------------------------
(* One control on its own, with every label of its table and every kind of  *)
(* reported value: the device answers, the entity is polled, the user       *)
(* selects.                                                                 *)

\* reported values that are in no table
UnmappedValues(axis) ==
    CASE axis = "sleep" -> {0, 86401}
      [] axis = "idle"  -> {0, 299, -2}
      [] axis = "wake"  -> {0, 6}

ReportedValues(c) ==
    IF c = "name" THEN {"Canvas"} ELSE TableValues(c) \cup UnmappedValues(c)

AllNames == {"Hall", "Den"}

ControlInit ==
    /\ \E c \in Controls :
         /\ cx = [axis |-> c, want |-> PyNone, shown |-> FALSE, seen |-> PyNone]
         /\ \E v \in ReportedValues(c) :
              dev = [InitialDevice EXCEPT ![ChangedField(c)] = v]
    /\ online = TRUE
    /\ omit = {}
    /\ device_info \in {PyNone, Snapshot(dev, {})}
    /\ lastGood = device_info
    /\ pending = {}
    /\ spc = [s \in Sensors |-> "idle"]
    /\ native = [s \in SensorEntities |-> PyNone]
    /\ attrs = [s \in SensorEntities |-> PyNone]
    /\ ncalls = [s \in Sensors |-> 0]
    /\ cycle = NewCycle(FALSE, PyNone, PyNone)
    /\ current_option = [a \in Axes |-> PyNone]
    /\ text_value = PyNone
    /\ inflight = <<>>
    /\ logged = PyNone
    /\ logs = <<>>
    /\ press = NoPress
    /\ flow = NoFlow
    /\ probe = NoProbe

SelectOptionAny ==
    /\ cx.axis \in Axes
    /\ \E o \in Labels(cx.axis) \cup {NotALabel} : SelectOption(cx.axis, o)

SetValueAny ==
    /\ cx.axis = "name"
    /\ \E v \in AllNames : SetValue(v)

SelectPolled ==
    /\ cx.axis \in Axes
    /\ SelectAsyncUpdate(cx.axis)

TextPolled ==
    /\ cx.axis = "name"
    /\ TextAsyncUpdate

ControlNext ==
    \/ SelectOptionAny
    \/ SetValueAny
    \/ SelectPolled
    \/ TextPolled
    \/ ServiceWrite
    \/ ServiceRefresh

ControlSpec == ControlInit /\ [][ControlNext]_vars

-----------------------------------------------------------------------------
(* The buttons on their own: presses, the command services, the device      *)
(* dropping off and coming back.                                            *)

ButtonNext ==
    \/ EinkNextImageButton_async_press
    \/ EinkRebootButton_async_press
    \/ EinkClearScreenButton_async_press
    \/ EinkWhistleButton_async_press
    \/ EinkRefreshButton_async_press
    \/ SendCommand
    \/ DeviceToggle

ButtonSpec == Init /\ [][ButtonNext]_vars

-----------------------------------------------------------------------------
(* One entity on its own, over every kind of snapshot it renders: the       *)
(* device answers or not and its battery drains, the cache may have been   *)
(* populated before, and a sensor is refreshed alongside a second one. The  *)
(* services an action awaits run with it.                                   *)

Entities == SensorEntities \cup Controls \cup Buttons

\* <<total_size, free_size>> the storage sensor is tried on
StorageCases ==
    { <<1400000000, 200000000>>, <<1000, 100>>, <<1000, 101>>, <<1000, 50>>,
      <<1000, 51>>, <<10000, 1004>>, <<10000, 504>>, <<1000, 0>>,
      <<1000, 1000>>, <<0, 0>>, <<5000000, 1000000>>, <<2000000000, 926258176>>,
      <<80, 57>>, <<2000, 1999>>, <<2000, 199>>, <<2000, 99>>, <<1000, 1200>>,
      <<2147483647, 1>> }

\* <<width, height>> the resolution sensor is tried on
ResolutionCases ==
    { <<480, 800>>, <<1200, 1600>>, <<2160, 3060>>, <<800, 480>>, <<999, 999>>,
      <<480, 1600>>, <<1200, 800>>, <<2160, 800>>, <<0, 0>> }

DeviceCases(e) ==
    CASE e = "storage" ->
            {[InitialDevice EXCEPT !.total_size = c[1], !.free_size = c[2]] :
                c \in StorageCases}
      [] e = "resolution" ->
            {[InitialDevice EXCEPT !.width = c[1], !.height = c[2]] :
                c \in ResolutionCases}
      [] e = "current_image" ->
            {InitialDevice, [InitialDevice EXCEPT !.image = <<>>]}
      [] OTHER -> {InitialDevice}

\* the fields a firmware may leave out of /deviceInfo
OmitCases(e) ==
    CASE e = "storage" -> {{}, {"free_size"}, {"total_size"}}
      [] e = "resolution" -> {{}, {"width"}, {"height"}, {"width", "height"}}
      [] e \in {"firmware", "wifi"} -> {{}, {"version", "sta_ssid", "sta_ip"}}
      [] e = "battery" -> {{}, {"battery"}}
      [] OTHER -> {{}}

EntityInit ==
    /\ \E e \in Entities :
         /\ probe = [entity |-> e]
         /\ dev \in DeviceCases(e)
         /\ omit \in OmitCases(e)
    /\ online \in BOOLEAN
    /\ device_info \in {PyNone, Snapshot(dev, omit)}
    /\ lastGood = device_info
    /\ pending = {}
    /\ spc = [s \in Sensors |-> "idle"]
    /\ native = [s \in SensorEntities |-> PyNone]
    /\ attrs = [s \in SensorEntities |-> PyNone]
    /\ ncalls = [s \in Sensors |-> 0]
    /\ cycle = NewCycle(FALSE, PyNone, PyNone)
    /\ current_option = [a \in Axes |-> PyNone]
    /\ text_value = PyNone
    /\ inflight = <<>>
    /\ logged = PyNone
    /\ cx = NoScenario
    /\ logs = <<>>
    /\ press = NoPress
    /\ flow = NoFlow

\* the sensor that is refreshed alongside the sensor followed
Companion(e) == IF e = "device_info" THEN "battery" ELSE "device_info"

PolledSensors ==
    IF probe.entity \in Sensors THEN {probe.entity, Companion(probe.entity)}
    ELSE {}

ProbeScheduled == \E s \in PolledSensors : SchedulePoll(s)

ProbeSensorBegin == \E s \in PolledSensors : SensorBegin(s)

ProbeSensorResume == \E s \in PolledSensors : SensorResume(s)

LogSensorPolled == probe.entity = "logs" /\ EinkLogSensor_async_update

ProbeSelectPolled == probe.entity \in Axes /\ SelectAsyncUpdate(probe.entity)

ProbeTextPolled == probe.entity = "name" /\ TextAsyncUpdate

ProbeSelectOption ==
    /\ probe.entity \in Axes
    /\ \E o \in TriedOptions(probe.entity) \cup {NotALabel} :
          SelectOption(probe.entity, o)

ProbeSetValue == probe.entity = "name" /\ \E v \in TriedNames : SetValue(v)

ProbePress == probe.entity \in Buttons /\ AsyncPress(probe.entity)

\* an internal event is recorded in the log history
LogEvent ==
    /\ probe.entity = "logs"
    /\ \E t \in Instants :
       \E entry \in {LogEntry(t, "info", "Settings updated"),
                     LogEntry(t, "warning", "Device unreachable")} :
          logs' = AppendLog(logs, entry)
    /\ UNCHANGED <<dev, online, omit, device_info, lastGood, pending, spc, native,
                   attrs, ncalls, cycle, current_option, text_value, inflight,
                   logged, cx, press, flow, probe>>

EntityNext ==
    \/ ProbeScheduled
    \/ ProbeSensorBegin
    \/ ProbeSensorResume
    \/ LogSensorPolled
    \/ ProbeSelectPolled
    \/ ProbeTextPolled
    \/ ProbeSelectOption
    \/ ProbeSetValue
    \/ ServiceWrite
    \/ ServiceRefresh
    \/ ProbePress
    \/ SendCommand
    \/ LogEvent
    \/ DeviceDrain
    \/ DeviceToggle

EntitySpec == EntityInit /\ [][EntityNext]_vars

-----------------------------------------------------------------------------
(* The config flow *)

\* the hosts and names a user submits; the device answers at DeviceHost
Hosts == {DeviceHost, "10.0.0.9"}

Names == {"Canvas", "Frame"}

UserInputs == {[host |-> h, name |-> n] : h \in Hosts, n \in Names}

\* how many steps are followed while they are suspended in validate_input
MaxSteps == 2

\* how many config entries are followed
MaxEntries == 2

\* EinkCanvasApiClient(hass, host).get_device_info(): nothing answers at
\* another address
GetDeviceInfoAt(host) ==
    IF host = DeviceHost THEN GetDeviceInfo(dev, online, omit) ELSE PyNone

\* what comes out of `await api_client.get_device_info()` in validate_input
\* besides an answer: an exception nobody expected, or the cancellation of
\* the task that runs the step
Faults == {"Exception", "CancelledError"}

\* validate_input from the await on: what it raises, and what it returns
\* when it raises nothing; `fault` is what the await raised, if anything
validate_input(data, fault) ==
    IF fault # "none" THEN [raised |-> fault]
    ELSE IF GetDeviceInfoAt(data.host) = PyNone THEN [raised |-> "CannotConnect"]
    ELSE [raised |-> "none", title |-> data.name]

\* isinstance(exc, Exception): asyncio.CancelledError derives from
\* BaseException only
IsException(exc) == exc # "CancelledError"

\* the except clauses of both steps
ExceptNarrow(exc) ==
    CASE exc = "CannotConnect" ->
            [escaped |-> FALSE, logged |-> FALSE, errors |-> [base |-> "ERROR_CANNOT_CONNECT"]]
      [] exc = "InvalidAuth" ->
            [escaped |-> FALSE, logged |-> FALSE, errors |-> [base |-> "ERROR_INVALID_AUTH"]]
      [] OTHER ->
            [escaped |-> TRUE, logged |-> FALSE, errors |-> EmptyDict]

Except(exc) ==
    CASE exc = "CannotConnect" ->
            [escaped |-> FALSE, logged |-> FALSE, errors |-> [base |-> "ERROR_CANNOT_CONNECT"]]
      [] exc = "InvalidAuth" ->
            [escaped |-> FALSE, logged |-> FALSE, errors |-> [base |-> "ERROR_INVALID_AUTH"]]
      [] exc \notin {"CannotConnect", "InvalidAuth"} /\ IsException(exc) ->
            [escaped |-> FALSE, logged |-> TRUE, errors |-> [base |-> "ERROR_UNKNOWN"]]
      [] OTHER ->
            [escaped |-> TRUE, logged |-> FALSE, errors |-> EmptyDict]

\* self.async_show_form(step_id=..., data_schema=..., errors=errors); of the
\* schema the defaults are kept
ShowForm(step_id, defaults, errors) ==
    [type |-> "form", step_id |-> step_id, defaults |-> defaults, errors |-> errors]

\* the defaults of the two forms: the user form has one for the name, the
\* reconfigure form takes both from the entry's data
DefaultTitle == "BLOOMIN8 E-Ink Canvas"

FormDefaults(step_id, target) ==
    IF step_id = "user" THEN [name |-> DefaultTitle]
    ELSE [host |-> Get(flow.entries[target], "host", ""),
          name |-> Get(flow.entries[target], "name", DefaultTitle)]

\* self._get_reconfigure_entry(): the entry the reconfigure flow was started
\* for, or nothing when that entry is not known (the lookup then raises)
GetReconfigureEntry(target) ==
    IF target \in 1..Len(flow.entries) THEN Val(flow.entries[target]) ELSE PyNone

\* a step that ends without an entry made or updated: it was given no input,
\* or its try block raised
StepWithoutEntry(step_id, user_input, target, raised) ==
    LET handled == Except(raised) IN
    [step |-> step_id, input |-> user_input, target |-> target,
     outcome |-> raised,
     result |-> IF raised # "none" /\ handled.escaped THEN PyNone
                ELSE ShowForm(step_id, FormDefaults(step_id, target),
                              IF raised = "none" THEN EmptyDict
                              ELSE handled.errors),
     logged |-> raised # "none" /\ handled.logged,
     escaped |-> raised # "none" /\ handled.escaped]

\* a step that raised outside its try block
StepRaised(step_id, user_input, target, raised) ==
    [step |-> step_id, input |-> user_input, target |-> target,
     outcome |-> raised, result |-> PyNone, logged |-> FALSE, escaped |-> TRUE]

\* nothing but the flow changes
FlowFrame ==
    UNCHANGED <<dev, online, omit, device_info, lastGood, pending, spc, native,
                attrs, ncalls, cycle, current_option, text_value, inflight,
                logged, cx, logs, press, probe>>

\* the integration is set up for the device's entry (again): its RuntimeData
\* is created anew, with no snapshot and no log, and so are its entities
SetupEntry ==
    /\ device_info' = PyNone
    /\ lastGood' = PyNone
    /\ logs' = <<>>
    /\ native' = [s \in SensorEntities |-> PyNone]
    /\ attrs' = [s \in SensorEntities |-> PyNone]
    /\ current_option' = [a \in Axes |-> PyNone]
    /\ text_value' = PyNone
    /\ UNCHANGED <<dev, online, omit, pending, spc, ncalls, cycle, inflight,
                   logged, cx, press, probe>>

\* the entry whose RuntimeData the model follows is the first one
DeviceEntry == 1

\* the steps of `step_id` that are suspended
Awaiting(step_id) == {i \in 1..Len(flow.await) : flow.await[i].step = step_id}

\* a step up to its first suspension: the whole step when it is given no
\* input or when the lookup of the reconfigure entry raises, up to the await
\* in validate_input otherwise
StepCalled(step_id, user_input, target) ==
    /\ IF step_id = "reconfigure" /\ GetReconfigureEntry(target) = PyNone
       THEN flow' = [flow EXCEPT
                       !.last = StepRaised(step_id, user_input, target, "UnknownEntry")]
       ELSE IF user_input = PyNone
       THEN flow' = [flow EXCEPT
                       !.last = StepWithoutEntry(step_id, PyNone, target, "none")]
       ELSE /\ Len(flow.await) < MaxSteps
            /\ step_id = "user" =>
                  Len(flow.entries) + Cardinality(Awaiting("user")) < MaxEntries
            /\ flow' = [flow EXCEPT
                          !.await = Append(@, [step |-> step_id, input |-> user_input,
                                               target |-> target])]
    /\ FlowFrame

\* self.async_create_entry(title=..., data=user_input)
CreateEntry(title, data) == [type |-> "create_entry", title |-> title, data |-> data]

\* self.async_update_reload_and_abort(reconfigure_entry, data_updates=...):
\* the entry's data after the update, and the result of the step
UpdatedData(entry, data_updates) ==
    [k \in DOMAIN entry \cup DOMAIN data_updates |->
        IF k \in DOMAIN data_updates THEN data_updates[k] ELSE entry[k]]

ReloadAndAbort == [type |-> "abort", reason |-> "reconfigure_successful"]

\* get_device_info() answers, raises, or the task is cancelled: the rest of
\* the i-th suspended step
StepAnswered(i, fault) ==
    /\ i \in 1..Len(flow.await)
    /\ LET call == flow.await[i]
           info == validate_input(call.input, fault)
           returned == [step |-> call.step, input |-> call.input,
                        target |-> call.target, outcome |-> "returned",
                        result |-> IF call.step = "user"
                                   THEN CreateEntry(info.title, call.input)
                                   ELSE ReloadAndAbort,
                        logged |-> FALSE, escaped |-> FALSE]
       IN  IF info.raised # "none"
           THEN /\ flow' = [flow EXCEPT
                              !.await = Remove(@, i),
                              !.last = StepWithoutEntry(call.step, call.input,
                                                        call.target, info.raised)]
                /\ FlowFrame
           ELSE IF call.step = "user"
           THEN /\ flow' = [await |-> Remove(flow.await, i), last |-> returned,
                            entries |-> Append(flow.entries, call.input)]
                /\ IF Len(flow.entries) + 1 = DeviceEntry THEN SetupEntry
                   ELSE FlowFrame
           ELSE /\ flow' = [await |-> Remove(flow.await, i), last |-> returned,
                            entries |-> [flow.entries EXCEPT ![call.target] =
                                            UpdatedData(@, call.input)]]
                /\ IF call.target = DeviceEntry THEN SetupEntry ELSE FlowFrame

\* EinkDisplayConfigFlow.async_step_user
async_step_user ==
    \/ \E user_input \in UserInputs \cup {PyNone} : StepCalled("user", user_input, 0)
    \/ \E i \in Awaiting("user"), fault \in Faults \cup {"none"} : StepAnswered(i, fault)

\* EinkDisplayConfigFlow.async_step_reconfigure, of a flow started for the
\* target-th entry (0: an entry that is not known any more)
async_step_reconfigure ==
    \/ \E user_input \in UserInputs \cup {PyNone}, target \in 0..Len(flow.entries) :
          StepCalled("reconfigure", user_input, target)
    \/ \E i \in Awaiting("reconfigure"), fault \in Faults \cup {"none"} :
          StepAnswered(i, fault)

\* the integration has been set up for the device, or not yet; once set up,
\* the cache may hold a snapshot
FlowInit ==
    /\ dev = InitialDevice
    /\ online \in BOOLEAN
    /\ omit = {}
    /\ \E set_up \in BOOLEAN :
         /\ flow = [NoFlow EXCEPT
                      !.entries = IF set_up
                                  THEN <<[host |-> DeviceHost, name |-> "Canvas"]>>
                                  ELSE <<>>]
         /\ device_info \in IF set_up THEN {PyNone, Snapshot(dev, {})} ELSE {PyNone}
    /\ lastGood = device_info
    /\ pending = {}
    /\ spc = [s \in Sensors |-> "idle"]
    /\ native = [s \in SensorEntities |-> PyNone]
    /\ attrs = [s \in SensorEntities |-> PyNone]
    /\ ncalls = [s \in Sensors |-> 0]
    /\ cycle = NewCycle(FALSE, PyNone, PyNone)
    /\ current_option = [a \in Axes |-> PyNone]
    /\ text_value = PyNone
    /\ inflight = <<>>
    /\ logged = PyNone
    /\ cx = NoScenario
    /\ logs = <<>>
    /\ press = NoPress
    /\ probe = NoProbe

FlowNext ==
    \/ async_step_user
    \/ async_step_reconfigure
    \/ DeviceToggle

FlowSpec == FlowInit /\ [][FlowNext]_vars

-----------------------------------------------------------------------------
(* The sensors under the platform's periodic refresh: every cycle is        *)
(* started again, every scheduled update runs, every call to the device     *)
(* returns (with a snapshot, or with nothing after the client's timeout).   *)

\* when a sensor's update can start, and when its call can return
BeginEnabled(s) == s \in pending /\ spc[s] = "idle"

ResumeEnabled(s) == spc[s] = "await"

\* weak fairness of the cycle's start, and of each step of each sensor's
\* update, the latter written out with the step's enabling condition
LiveSpec ==
    /\ Init
    /\ [][Next]_vars
    /\ WF_vars(StartCycle)
    /\ \A s \in Sensors :
          /\ []<>~BeginEnabled(s) \/ []<><<SensorBegin(s)>>_vars
          /\ []<>~ResumeEnabled(s) \/ []<><<SensorResume(s)>>_vars

-----------------------------------------------------------------------------
(* Properties *)

\* a settings action of control c fires with an input its table accepts
SettingsActionFires(c) ==
    IF c = "name" THEN \E v \in TriedNames \cup AllNames : SetValue(v)
    ELSE \E o \in Labels(c) : SelectOption(c, o)

CycleComplete ==
    /\ cycle.run
    /\ pending = {}
    /\ \A s \in Sensors : spc[s] = "idle"

\* C1: every update_settings payload has exactly the fields name,
\* sleep_duration, max_idle and idx_wake_sens; the changed field carries the
\* new value (the table value of the selected label, or the submitted name),
\* and every other field the snapshot holds is copied from the snapshot the
\* action read.
C1_PayloadKeepsSnapshot ==
    \A n \in 1..Len(inflight) :
        LET call == inflight[n] IN
        /\ DOMAIN call.payload = {"name", "sleep_duration", "max_idle", "idx_wake_sens"}
        /\ IF call.ctl = "name"
           THEN call.payload["name"] = call.arg
           ELSE /\ call.arg \in Labels(call.ctl)
                /\ \E i \in 1..Len(Options(call.ctl)) :
                     /\ Options(call.ctl)[i][1] = call.arg
                     /\ Options(call.ctl)[i][2] = call.payload[FieldOf(call.ctl)]
        /\ \A k \in SettingsKeys \ {ChangedField(call.ctl)} :
              k \in DOMAIN call.snap => call.payload[k] = call.snap[k]

\* C1 witness: with a change of the name still in flight, the max-idle select
\* dispatches "never sleep" on a snapshot that holds an earlier change of the
\* sleep duration, and the payload carries both.
C1_Witness ==
    /\ Len(inflight) = 2
    /\ inflight[1].ctl = "name"
    /\ LET call == inflight[2] IN
         /\ call.ctl = "idle"
         /\ call.arg = "never sleep"
         /\ "sleep_duration" \in DOMAIN call.snap
         /\ call.snap["sleep_duration"] = 43200
         /\ call.payload["sleep_duration"] = 43200
         /\ call.payload["max_idle"] = -1
         /\ call.payload["name"] = call.snap["name"]

\* C2: a settings action that finds the cache absent dispatches nothing,
\* reports "device info not available" and leaves the cache absent.
C2_AbortWhenCacheAbsent ==
    [][\A c \in Controls :
          (~Truthy(device_info) /\ SettingsActionFires(c)) =>
              /\ inflight' = inflight
              /\ inflight' = <<>>
              /\ device_info' = device_info
              /\ dev' = dev
              /\ logged' = [ctl |-> c, msg |-> "device info not available",
                            raised |-> FALSE]]_vars

\* C2 witness: the text field reported the condition, nothing is in flight and
\* the cache is still absent.
C2_Witness ==
    /\ device_info = PyNone
    /\ inflight = <<>>
    /\ logged = [ctl |-> "name", msg |-> "device info not available", raised |-> FALSE]

\* C3: a sensor update that starts with a populated cache makes no
\* get_device_info() call, leaves the cache as it is and renders the cached
\* snapshot, whatever the device's state has become.
C3_PopulatedCacheNoFetch ==
    [][\A s \in Sensors :
          (Truthy(device_info) /\ SensorBegin(s)) =>
              /\ device_info' = device_info
              /\ spc'[s] = "idle"
              /\ ncalls'[s] = 0
              /\ cycle'.calls = cycle.calls
              /\ native'[s] = NativeOf(s, device_info)
              /\ attrs'[s] = AttrsOf(s, device_info, attrs[s])]_vars

\* C3 witness: a cycle began with the cache behind the device, and the
\* device-info sensor has rendered the cached snapshot without a call.
C3_Witness ==
    /\ cycle.run
    /\ cycle.stale
    /\ cycle.calls = 0
    /\ "device_info" \notin pending
    /\ spc["device_info"] = "idle"
    /\ ncalls["device_info"] = 0
    /\ Truthy(device_info)
    /\ device_info # Snapshot(dev, omit)
    /\ native["device_info"] = Val("Online")
    /\ attrs["device_info"] = AttrsOf("device_info", device_info, PyNone)

\* C4: a sensor update that called get_device_info() on an empty cache and
\* got no answer has made exactly one call, does not call again, renders the
\* offline value and stores nothing in the cache.
C4_FailedFetchLeavesCacheEmpty ==
    [][\A s \in Sensors :
          (SensorResume(s) /\ GetDeviceInfo(dev, online, omit) = PyNone) =>
              /\ device_info' = device_info
              /\ (device_info = PyNone => device_info' = PyNone)
              /\ ncalls'[s] = 1
              /\ spc'[s] = "idle"
              /\ cycle'.calls = cycle.calls
              /\ native'[s] = NativeOf(s, PyNone)]_vars

\* C4 witness: the battery sensor finished an update with one call, shows no
\* value, and the cache is still absent.
C4_Witness ==
    /\ cycle.run
    /\ "battery" \notin pending
    /\ spc["battery"] = "idle"
    /\ ncalls["battery"] = 1
    /\ native["battery"] = PyNone
    /\ ~cycle.ok
    /\ device_info = PyNone

\* C5 as claimed: a cycle that starts with an empty cache and a reachable
\* device makes exactly one get_device_info() call.
C5_ExactlyOneCall ==
    (CycleComplete /\ cycle.startEmpty /\ cycle.ok) => cycle.calls = 1

\* C5 amended: in such a cycle every sensor that reads the cache before the
\* first answer is stored makes its own call, so between one call and one
\* call per sensor are made and the cache ends populated; exactly one call is
\* made when no two updates overlap.
C5_OneCallPerEarlySensor ==
    (CycleComplete /\ cycle.startEmpty /\ cycle.ok) =>
        /\ cycle.calls >= 1
        /\ cycle.calls <= Cardinality(Sensors)
        /\ (~cycle.overlap => cycle.calls = 1)
        /\ Truthy(device_info)

\* C5 witness: a completed cycle on a reachable device in which all seven
\* sensors were inside get_device_info() at once: seven calls.
C5_Witness ==
    /\ CycleComplete
    /\ cycle.startEmpty
    /\ cycle.ok
    /\ cycle.overlap
    /\ cycle.calls = 7
    /\ \A s \in Sensors : ncalls[s] = 1
    /\ Truthy(device_info)

\* C6 as claimed: every payload agrees, when it is dispatched, with the
\* device's actual settings on the three fields the user did not change
\* (stated for a device that reports every field).
C6_PayloadAgreesWithDevice ==
    [][(omit = {} /\ Len(inflight') = Len(inflight) + 1) =>
          LET call == inflight'[Len(inflight')] IN
          \A k \in SettingsKeys \ {ChangedField(call.ctl)} :
              call.payload[k] = dev[k]]_vars

\* C7: for each select and every label of its table, the label shown after
\* the selection has been written to the device and read back is the label
\* that was selected; "never sleep" is sent as -1 and -1 is shown as
\* "never sleep".
C7_RoundTrip ==
    /\ (cx.axis \in Axes /\ cx.shown) => current_option[cx.axis] = cx.want
    /\ \A n \in 1..Len(inflight) :
          (inflight[n].ctl = "idle" /\ inflight[n].arg = "never sleep")
              => inflight[n].payload["max_idle"] = -1
    /\ (cx.axis = "idle" /\ cx.seen = Val(-1))
          => current_option["idle"] = Val("never sleep")

\* C7 witness: "never sleep" was selected, the device holds -1, and the
\* select shows "never sleep" again.
C7_Witness ==
    /\ cx.axis = "idle"
    /\ cx.want = Val("never sleep")
    /\ cx.shown
    /\ cx.seen = Val(-1)
    /\ dev.max_idle = -1
    /\ current_option["idle"] = Val("never sleep")

\* C8: a reported value that equals no table value is shown as the default
\* label of its select ("1 day", "5 minutes", "medium"); a reported value is
\* shown under a table label only when that label's value equals it.
C8_UnmappedShowsDefault ==
    (cx.axis \in Axes /\ cx.seen # PyNone) =>
        LET matches == {i \in 1..Len(Options(cx.axis)) :
                            Options(cx.axis)[i][2] = cx.seen.value}
            shown == current_option[cx.axis]
        IN  IF matches = {}
            THEN shown = Val(CASE cx.axis = "sleep" -> "1 day"
                               [] cx.axis = "idle"  -> "5 minutes"
                               [] cx.axis = "wake"  -> "medium")
            ELSE \E i \in matches : shown = Val(Options(cx.axis)[i][1])

\* C8 witness: the device reported a sleep duration one second off "1 day",
\* and the select shows the default.
C8_Witness ==
    /\ cx.axis = "sleep"
    /\ cx.seen = Val(86401)
    /\ current_option["sleep"] = Val("1 day")
    /\ device_info # PyNone
    /\ device_info["sleep_duration"] = 86401

\* C9 as claimed: selecting a label that is in no table signals an error to
\* the caller.
C9_UnknownLabelRaises ==
    (logged # PyNone /\ logged.msg = "invalid option") => logged.raised

\* C9 amended: selecting a label that is in no table logs the invalid option
\* and returns normally; no update_settings call is dispatched, no default is
\* substituted, and cache and device are untouched, whatever the cache holds.
C9_UnknownLabelLoggedNoDispatch ==
    [][\A a \in Axes :
          SelectOption(a, NotALabel) =>
              /\ inflight' = inflight
              /\ device_info' = device_info
              /\ dev' = dev
              /\ logged' = [ctl |-> a, msg |-> "invalid option", raised |-> FALSE]]_vars

\* C9 witness: the wake-sensitivity select rejected a label on a populated
\* cache, and nothing is in flight.
C9_Witness ==
    /\ logged = [ctl |-> "wake", msg |-> "invalid option", raised |-> FALSE]
    /\ Truthy(device_info)
    /\ inflight = <<>>
    /\ device_info = Snapshot(dev, {})

\* C10: the cache is absent or is, whole, the latest snapshot that
\* get_device_info() returned; a settings action in flight holds a snapshot
\* the device reported whole.
C10_WholeSnapshot ==
    /\ device_info = PyNone \/ device_info = lastGood
    /\ Truthy(device_info) => DOMAIN device_info = Keys \ omit
    /\ \A n \in 1..Len(inflight) : DOMAIN inflight[n].snap = Keys \ omit

\* C10 witness: the cache was replaced by a later snapshot that differs from
\* the first one in two settings.
C10_Witness ==
    /\ Truthy(device_info)
    /\ device_info = lastGood
    /\ device_info["sleep_duration"] = 43200
    /\ device_info["name"] = "Hall"
    /\ device_info = Snapshot(dev, omit)

\* the call a press of button b is to make
ExpectedCall(b) ==
    [service |-> CASE b = "next_image"   -> "show_next"
                   [] b = "reboot"       -> "reboot"
                   [] b = "clear_screen" -> "clear_screen"
                   [] b = "whistle"      -> "whistle"
                   [] b = "refresh"      -> "refresh_device_info",
     data |-> EmptyDict, blocking |-> TRUE]

\* C11: a button is dispatching while a press of it is blocked, idle
\* otherwise. Every change of the presses is either a press, which dispatches
\* exactly one blocking call of the button's own command with an empty
\* payload and logs nothing, or the return of one blocked press, which has
\* made that one call and no further (retry) call; a call that failed has
\* been logged as an error by the command service when the press returns.
C11_OneCallThenIdle ==
    [][press' # press =>
          \/ \E b \in Buttons :
                /\ press'.active = Append(press.active,
                                          [button |-> b, sent |-> <<ExpectedCall(b)>>,
                                           todo |-> <<>>])
                /\ press'.returned = press.returned
                /\ logs' = logs
          \/ \E i \in 1..Len(press.active) :
                /\ press'.active = SubSeq(press.active, 1, i - 1)
                                     \o SubSeq(press.active, i + 1, Len(press.active))
                /\ press'.returned # PyNone
                /\ press'.returned.button = press.active[i].button
                /\ press'.returned.sent = press.active[i].sent
                /\ press'.returned.sent = <<ExpectedCall(press.active[i].button)>>
                /\ IF press'.returned.failed
                   THEN \E t \in Instants :
                           LET entry == [timestamp |-> t, level |-> "error",
                                         message |-> press'.returned.sent[1].service]
                           IN  \/ logs' = Append(logs, entry)
                               \/ logs # <<>> /\ logs' = Append(Tail(logs), entry)
                   ELSE logs' = logs]_vars

\* C11 witness: a press of the reboot button has returned after a call that
\* failed and was logged, and two presses of the whistle button are blocked
\* at once, each on its one call.
C11_Witness ==
    /\ press.returned # PyNone
    /\ press.returned.button = "reboot"
    /\ press.returned.failed
    /\ press.returned.sent = <<[service |-> "reboot", data |-> EmptyDict, blocking |-> TRUE]>>
    /\ logs # <<>>
    /\ logs[Len(logs)].level = "error"
    /\ logs[Len(logs)].message = "reboot"
    /\ Len(press.active) = 2
    /\ \A i \in 1..2 :
          /\ press.active[i].button = "whistle"
          /\ press.active[i].sent = <<[service |-> "whistle", data |-> EmptyDict,
                                       blocking |-> TRUE]>>

\* the displayed values that say the device is offline or its state unknown
\* (None is shown as "unknown")
ExplicitOffline == {PyNone, Val("Offline"), Val("Unknown")}

\* the value each sensor shows when it has no device info
OfflineShown(s) ==
    CASE s = "battery" -> PyNone
      [] s = "current_image" -> Val("None")
      [] s = "resolution" -> Val("Unknown")
      [] s \in {"device_info", "storage", "firmware", "wifi"} -> Val("Offline")

\* C12 as claimed: when a sensor's fetch on an empty cache gets no answer,
\* the rest of its async_update leaves the sensor at an explicit
\* offline/unknown value, with no attribute left from an earlier snapshot.
C12_AbsentRendersOffline ==
    [][\A s \in Sensors :
          (~Truthy(device_info) /\ ~Truthy(GetDeviceInfo(dev, online, omit))
             /\ SensorResume(s)) =>
              /\ native'[s] \in ExplicitOffline
              /\ attrs'[s] \in {PyNone, EmptyDict}]_vars

\* the storage sensor shows a rendering of the device's snapshot
StorageRendered ==
    /\ probe.entity = "storage"
    /\ native["storage"] \notin {PyNone, Val("Offline")}

\* C14: for a snapshot with total_size > 0 the storage sensor's
\* storage_status is "healthy" when the usage percentage, rounded to one
\* decimal, is below 90, "warning" from 90 and below 95, "critical" from 95;
\* with total_size 0 (or missing) the sensor shows "Unknown" with no
\* attributes.
C14_StorageStatus ==
    StorageRendered =>
        LET di == Snapshot(dev, omit)
            total == IF "total_size" \in DOMAIN di THEN di["total_size"] ELSE 0
            free == IF "free_size" \in DOMAIN di THEN di["free_size"] ELSE 0
            used == total - free
            pct == UsagePercent(used, total)
            t == IF pct.neg THEN -pct.tenths ELSE pct.tenths
        IN  IF total > 0
            THEN /\ attrs["storage"].usage_percentage = PercentStr(pct)
                 /\ total <= 10000 => 2 * Abs(1000 * used - t * total) <= total
                 /\ t < 900 => attrs["storage"].storage_status = "healthy"
                 /\ (900 <= t /\ t < 950) => attrs["storage"].storage_status = "warning"
                 /\ t >= 950 => attrs["storage"].storage_status = "critical"
            ELSE /\ native["storage"] = Val("Unknown")
                 /\ attrs["storage"] = EmptyDict

\* C14 witness: a device with exactly 90.0 percent used is shown as
\* "warning" by an update that fetched the snapshot itself.
C14_Witness ==
    /\ StorageRendered
    /\ omit = {}
    /\ dev.total_size = 1000
    /\ dev.free_size = 100
    /\ spc["storage"] = "idle"
    /\ ncalls["storage"] = 1
    /\ native["storage"] = Val("90.0% (900 B / 1000 B)")
    /\ attrs["storage"].usage_percentage = "90.0"
    /\ attrs["storage"].storage_status = "warning"

\* the storage sensor shows a device with 1_200_000_000 of 1_400_000_000
\* bytes used
StorageExampleRendered ==
    /\ StorageRendered
    /\ omit = {}
    /\ dev.total_size = 1400000000
    /\ dev.total_size - dev.free_size = 1200000000

\* C15 as claimed: for used = 1_200_000_000 and total = 1_400_000_000 the
\* sensor shows 85.7%, "1.12 GB" used of "1.3 GB", and the status "warning".
C15_ExampleIsWarning ==
    StorageExampleRendered =>
        /\ attrs["storage"].usage_percentage = "85.7"
        /\ native["storage"] = Val("85.7% (1.12 GB / 1.3 GB)")
        /\ attrs["storage"].used_formatted = "1.12 GB"
        /\ attrs["storage"].total_formatted = "1.3 GB"
        /\ attrs["storage"].storage_status = "warning"

\* C15 amended: for used = 1_200_000_000 and total = 1_400_000_000 the
\* sensor shows 85.7%, "1.12 GB" used of "1.3 GB", and the status "healthy"
\* (85.7 is below 90).
C15_ExampleIsHealthy ==
    StorageExampleRendered =>
        /\ attrs["storage"].usage_percentage = "85.7"
        /\ native["storage"] = Val("85.7% (1.12 GB / 1.3 GB)")
        /\ attrs["storage"].used_formatted = "1.12 GB"
        /\ attrs["storage"].total_formatted = "1.3 GB"
        /\ attrs["storage"].storage_status = "healthy"

\* C15 witness: the storage sensor has rendered that device from a fetch of
\* its own.
C15_Witness ==
    /\ StorageExampleRendered
    /\ spc["storage"] = "idle"
    /\ ncalls["storage"] = 1
    /\ attrs["storage"].used_size_bytes = 1200000000
    /\ attrs["storage"].total_size_bytes = 1400000000

\* the resolution sensor shows a rendering of the device's snapshot
ResolutionRendered ==
    /\ probe.entity = "resolution"
    /\ native["resolution"] \notin {PyNone, Val("Unknown")}

\* C16: canvas_model is "7.3\" Canvas" for exactly (480, 800), "13.3\" Canvas"
\* for exactly (1200, 1600), "28.5\" Canvas" for exactly (2160, 3060) and
\* "Unknown" for every other pair, a missing dimension counting as 0.
C16_CanvasModelExact ==
    ResolutionRendered =>
        LET di == Snapshot(dev, omit)
            w == IF "width" \in DOMAIN di THEN di["width"] ELSE 0
            h == IF "height" \in DOMAIN di THEN di["height"] ELSE 0
            shown == attrs["resolution"].canvas_model
        IN  /\ attrs["resolution"].width = w
            /\ attrs["resolution"].height = h
            /\ shown = "7.3\" Canvas" <=> (w = 480 /\ h = 800)
            /\ shown = "13.3\" Canvas" <=> (w = 1200 /\ h = 1600)
            /\ shown = "28.5\" Canvas" <=> (w = 2160 /\ h = 3060)
            /\ shown = "Unknown" <=>
                  <<w, h>> \notin {<<480, 800>>, <<1200, 1600>>, <<2160, 3060>>}

\* C16 witness: a device that reports the 7.3" dimensions swapped is shown as
\* "Unknown" by an update that found the snapshot in the cache.
C16_Witness ==
    /\ ResolutionRendered
    /\ omit = {}
    /\ dev.width = 800
    /\ dev.height = 480
    /\ spc["resolution"] = "idle"
    /\ ncalls["resolution"] = 0
    /\ native["resolution"] = Val("800x480")
    /\ attrs["resolution"].canvas_model = "Unknown"

\* C13 as claimed: with the cache absent, async_update leaves a select or the
\* text field showing an explicit offline/unknown state, not a label of the
\* option table or a device name.
C13_AbsentShowsUnknown ==
    [][/\ \A a \in Axes :
            (~Truthy(device_info) /\ SelectAsyncUpdate(a)) =>
                current_option'[a] \in {PyNone, Val("Offline"), Val("Unknown")}
       /\ (~Truthy(device_info) /\ TextAsyncUpdate) =>
                text_value' \in {PyNone, Val("Offline"), Val("Unknown")}]_vars

\* a step of the entity's own code other than a sensor's update: the log
\* sensor's, a select's or the text's update, a settings action or a button
\* press up to the call it awaits
EntityCodeStep ==
    \/ LogSensorPolled
    \/ ProbeSelectPolled
    \/ ProbeTextPolled
    \/ ProbeSelectOption
    \/ ProbeSetValue
    \/ ProbePress

\* a step of a service that a settings action or a button press awaits
AwaitedServiceStep ==
    \/ ServiceWrite
    \/ ServiceRefresh
    \/ SendCommand

\* the cache, the log history and the fetch count are as they were
CacheUntouched ==
    /\ device_info' = device_info
    /\ logs' = logs
    /\ lastGood' = lastGood
    /\ ncalls' = ncalls

StepEndedWell(r) ==
    /\ flow'.entries # flow.entries => r.outcome = "returned"
    /\ r.outcome = "returned" =>
          /\ r.input # PyNone
          /\ online
          /\ r.input.host = "10.0.0.7"
          /\ ~r.logged
          /\ IF r.step = "user"
             THEN /\ r.result = [type |-> "create_entry", title |-> r.input.name,
                                 data |-> r.input]
                  /\ flow'.entries = Append(flow.entries, r.input)
             ELSE /\ r.result = [type |-> "abort", reason |-> "reconfigure_successful"]
                  /\ Len(flow'.entries) = Len(flow.entries)
                  /\ flow'.entries[r.target] = r.input
                  /\ \A n \in 1..Len(flow.entries) :
                        n # r.target => flow'.entries[n] = flow.entries[n]
    /\ r.outcome = "CannotConnect" =>
          /\ r.input # PyNone
          /\ ~online \/ r.input.host # "10.0.0.7"
          /\ r.result # PyNone
          /\ r.result.type = "form"
          /\ r.result.step_id = r.step
          /\ r.result.errors = [base |-> "ERROR_CANNOT_CONNECT"]
    /\ r.outcome = "Exception" =>
          /\ r.logged
          /\ r.result # PyNone
          /\ r.result.type = "form"
          /\ r.result.step_id = r.step
          /\ r.result.errors = [base |-> "ERROR_UNKNOWN"]
    /\ r.outcome = "none" =>
          /\ r.input = PyNone
          /\ r.result # PyNone
          /\ r.result.type = "form"
          /\ r.result.errors = EmptyDict
    /\ IF r.outcome = "returned"
          /\ (IF r.step = "user" THEN Len(flow'.entries) = 1 ELSE r.target = 1)
       THEN device_info' = PyNone /\ logs' = <<>>
       ELSE device_info' = device_info /\ logs' = logs

\* a step is suspended in validate_input: nothing else has changed
StepSuspended ==
    /\ Len(flow'.await) = Len(flow.await) + 1
    /\ flow'.last = flow.last
    /\ flow'.entries = flow.entries
    /\ device_info' = device_info
    /\ logs' = logs

\* C17 as claimed: a step of the config flow lets no exception escape; it
\* creates or updates an entry only when validate_input returned; when the
\* device did not answer it shows its form again with the cannot-connect
\* error, and when anything else was raised it logs the exception and shows
\* its form again with the unknown error.
C17_FlowAbsorbsErrors ==
    [][flow' # flow =>
          \/ StepSuspended
          \/ /\ Len(flow'.await) <= Len(flow.await)
             /\ ~flow'.last.escaped
             /\ StepEndedWell(flow'.last)]_vars

\* C17 amended: a step of the config flow lets no exception escape that
\* derives from Exception and is raised by validation: it creates or updates
\* an entry only when validate_input returned; when the device did not answer
\* it shows its form again with the cannot-connect error, and when another
\* Exception was raised it logs the exception and shows its form again with
\* the unknown error. Two exceptions do escape, unlogged and without a form
\* or an entry: the cancellation of the step while it waits for the device
\* (CancelledError is no Exception), and the failed lookup of the entry at
\* the head of the reconfigure step, which is outside the try block.
C17_FlowAbsorbsExceptions ==
    [][flow' # flow =>
          \/ StepSuspended
          \/ /\ Len(flow'.await) <= Len(flow.await)
             /\ flow'.last.escaped =>
                   /\ flow'.last.outcome \in {"CancelledError", "UnknownEntry"}
                   /\ flow'.last.outcome = "UnknownEntry" =>
                         /\ flow'.last.step = "reconfigure"
                         /\ flow'.last.target \notin 1..Len(flow.entries)
                         /\ Len(flow'.await) = Len(flow.await)
                   /\ flow'.last.outcome = "CancelledError" =>
                         Len(flow'.await) < Len(flow.await)
                   /\ ~flow'.last.logged
                   /\ flow'.last.result = PyNone
                   /\ flow'.entries = flow.entries
             /\ flow'.last.outcome \in {"CancelledError", "UnknownEntry"} =>
                   flow'.last.escaped
             /\ StepEndedWell(flow'.last)]_vars

\* C17 witness: with a reconfigure step of the device's entry suspended in
\* validate_input, a user step was cancelled while it waited for the device:
\* the cancellation escaped, nothing was logged, no form is shown, and the
\* entry is as it was.
C17_Witness ==
    /\ flow.last.step = "user"
    /\ flow.last.outcome = "CancelledError"
    /\ flow.last.escaped
    /\ ~flow.last.logged
    /\ flow.last.result = PyNone
    /\ flow.last.input = [host |-> "10.0.0.7", name |-> "Frame"]
    /\ flow.entries = <<[host |-> "10.0.0.7", name |-> "Canvas"]>>
    /\ Len(flow.await) = 1
    /\ flow.await[1].step = "reconfigure"
    /\ flow.await[1].target = 1

\* C19: if from some point on the device answers, the cache is eventually
\* populated and the device-info sensor eventually shows "Online", for good;
\* an update whose fetch got no answer leaves the sensor at its offline value
\* and the cache empty, and every update that starts on an empty cache makes
\* a new call.
C19_EventuallyOnline ==
    /\ <>[]online =>
          <>[](Truthy(device_info) /\ native["device_info"] = Val("Online"))
    /\ [][\A s \in Sensors :
             /\ (SensorResume(s) /\ ~online /\ ~Truthy(device_info)) =>
                   /\ ~Truthy(device_info')
                   /\ native'[s] = OfflineShown(s)
                   /\ spc'[s] = "idle"
             /\ (SensorBegin(s) /\ ~Truthy(device_info)) =>
                   /\ spc'[s] = "await"
                   /\ ncalls'[s] = 1]_vars

\* C19 witness: the battery sensor's update of an earlier cycle fetched and
\* got nothing; the next cycle started on the empty cache, and in it the
\* device-info sensor fetched a snapshot and shows "Online".
C19_Witness ==
    /\ cycle.run
    /\ cycle.startEmpty
    /\ cycle.calls = 1
    /\ cycle.ok
    /\ "battery" \in pending
    /\ ncalls["battery"] = 1
    /\ native["battery"] = PyNone
    /\ ncalls["device_info"] = 1
    /\ spc["device_info"] = "idle"
    /\ native["device_info"] = Val("Online")
    /\ Truthy(device_info)

====
